---- MODULE Spec2Model ----
(***************************************************************************)
(* A model of the EV registration processor (src/src/ev_processor.py):     *)
(* the line classifier is_ev, the field extractor extract_vehicle_info,    *)
(* the file processor process_file and the month aggregator process_month. *)
(*                                                                         *)
(* Text is modelled as it is in the program: a line is a sequence of       *)
(* one-character strings, and the regular expressions of the source are    *)
(* operators that scan that sequence position by position.                 *)
(***************************************************************************)
EXTENDS Integers, Sequences, FiniteSets, TLC

(***************************************************************************)
(* Characters and character classes (re: \d, \s, \b / \w, [A-Z]).          *)
(***************************************************************************)
Digits == {"0", "1", "2", "3", "4", "5", "6", "7", "8", "9"}

UpperLetters ==
    {"A", "B", "C", "D", "E", "F", "G", "H", "I", "J", "K", "L", "M",
     "N", "O", "P", "Q", "R", "S", "T", "U", "V", "W", "X", "Y", "Z"}

LowerSeq ==
    <<"a", "b", "c", "d", "e", "f", "g", "h", "i", "j", "k", "l", "m",
      "n", "o", "p", "q", "r", "s", "t", "u", "v", "w", "x", "y", "z">>

UpperSeq ==
    <<"A", "B", "C", "D", "E", "F", "G", "H", "I", "J", "K", "L", "M",
      "N", "O", "P", "Q", "R", "S", "T", "U", "V", "W", "X", "Y", "Z">>

LowerLetters == {LowerSeq[i] : i \in 1..Len(LowerSeq)}

IsDigit(c) == c \in Digits

IsSpace(c) == c \in {" ", "\n"}

IsUpperLetter(c) == c \in UpperLetters

IsWord(c) == c \in Digits \cup UpperLetters \cup LowerLetters \cup {"_"}

\* str.upper() on one character
UpperChar(c) ==
    IF c \in LowerLetters
    THEN UpperSeq[CHOOSE i \in 1..Len(LowerSeq) : LowerSeq[i] = c]
    ELSE c

\* str.upper()
Upper(s) == [i \in 1..Len(s) |-> UpperChar(s[i])]

(***************************************************************************)
(* String primitives of Python used by the source.                         *)
(***************************************************************************)
Min(a, b) == IF a < b THEN a ELSE b

\* s[a:b] with 0-based, end-exclusive, clipped bounds
Slice(s, a, b) == SubSeq(s, a + 1, Min(b, Len(s)))

\* str.strip(): drop leading and trailing whitespace
Strip(s) ==
    LET keep == {i \in 1..Len(s) : ~IsSpace(s[i])}
    IN  IF keep = {} THEN <<>>
        ELSE LET lo == CHOOSE i \in keep : \A j \in keep : i <= j
                 hi == CHOOSE i \in keep : \A j \in keep : i >= j
             IN  SubSeq(s, lo, hi)

\* the literal lit occurs in s at position i (1-based)
LitAt(lit, s, i) ==
    /\ i >= 1
    /\ i + Len(lit) - 1 <= Len(s)
    /\ \A k \in 1..Len(lit) : s[i + k - 1] = lit[k]

\* `lit in s`
Contains(s, lit) == \E i \in 1..Len(s) : LitAt(lit, s, i)

\* greedy \d*: the last index of the longest run of digits that starts at i
\* (i - 1 when the run is empty)
DigitRunEnd(s, i) ==
    IF i > Len(s) THEN i - 1
    ELSE CHOOSE j \in (i - 1)..Len(s) :
            /\ \A k \in i..j : IsDigit(s[k])
            /\ (j = Len(s) \/ ~IsDigit(s[j + 1]))

\* greedy \s*: the last index of the longest run of whitespace that starts
\* at i (i - 1 when the run is empty)
SpaceRunEnd(s, i) ==
    IF i > Len(s) THEN i - 1
    ELSE CHOOSE j \in (i - 1)..Len(s) :
            /\ \A k \in i..j : IsSpace(s[k])
            /\ (j = Len(s) \/ ~IsSpace(s[j + 1]))

BEV == <<"B", "E", "V">>

ELECTRIC == <<"E", "L", "E", "C", "T", "R", "I", "C">>

HYBRID == <<"H", "Y", "B", "R", "I", "D">>

EVEHICLE == <<"E", "-", "V", "E", "H", "I", "C", "L", "E">>

(***************************************************************************)
(* The regular expressions.  MatchN(s, i) is the end index of the match of *)
(* pattern N that starts at position i, 0 when there is none.              *)
(***************************************************************************)
\* r'\d+BEV\s+\d+'
Match1(s, i) ==
    LET d1 == DigitRunEnd(s, i)
        w  == SpaceRunEnd(s, d1 + 4)
        d2 == DigitRunEnd(s, w + 1)
    IN  IF d1 >= i /\ LitAt(BEV, s, d1 + 1) /\ w >= d1 + 4 /\ d2 >= w + 1
        THEN d2 ELSE 0

\* r'BEV\s+\d{5,}'
Match2(s, i) ==
    LET w == SpaceRunEnd(s, i + 3)
        d == DigitRunEnd(s, w + 1)
    IN  IF LitAt(BEV, s, i) /\ w >= i + 3 /\ d >= w + 5
        THEN d ELSE 0

\* r'\d{3,}BEV'
Match3(s, i) ==
    LET d == DigitRunEnd(s, i)
    IN  IF d >= i + 2 /\ LitAt(BEV, s, d + 1)
        THEN d + 3 ELSE 0

\* the least element of a non-empty set of positions
Leftmost(hits) == CHOOSE i \in hits : \A j \in hits : i <= j

\* re.search(r'\d+BEV\s+\d+', s): the start of the leftmost match, 0 when
\* the pattern does not occur
Search1(s) ==
    LET hits == {i \in 1..Len(s) : Match1(s, i) > 0}
    IN  IF hits = {} THEN 0 ELSE Leftmost(hits)

\* re.search(r'BEV\s+\d{5,}', s)
Search2(s) ==
    LET hits == {i \in 1..Len(s) : Match2(s, i) > 0}
    IN  IF hits = {} THEN 0 ELSE Leftmost(hits)

\* re.search(r'\d{3,}BEV', s)
Search3(s) ==
    LET hits == {i \in 1..Len(s) : Match3(s, i) > 0}
    IN  IF hits = {} THEN 0 ELSE Leftmost(hits)

\* r'\bBEV\b\s*$'
TrailingBEV(s) ==
    \E i \in 1..Len(s) :
        /\ LitAt(BEV, s, i)
        /\ (i = 1 \/ ~IsWord(s[i - 1]))
        /\ (i + 3 > Len(s) \/ ~IsWord(s[i + 3]))
        /\ SpaceRunEnd(s, i + 3) = Len(s)

\* r'E-[A-Z]+'
EDash(s) ==
    \E i \in 1..Len(s) :
        /\ LitAt(<<"E", "-">>, s, i)
        /\ i + 2 <= Len(s)
        /\ IsUpperLetter(s[i + 2])

\* one of the three patterns of ev_patterns occurs in the line
PrimaryMatch(s) ==
    \/ Search1(s) > 0
    \/ Search2(s) > 0
    \/ Search3(s) > 0

\* the secondary check without the test for 'HYBRID'
SecondaryMatch_with_hybrid(s) ==
    Contains(Upper(s), ELECTRIC) \/ EDash(s)

\* the secondary check of is_ev
SecondaryMatch(s) ==
    /\ (Contains(Upper(s), ELECTRIC) \/ EDash(s))
    /\ ~Contains(Upper(s), HYBRID)

MinLineLen == 200

(***************************************************************************)
(* EVProcessor.is_ev                                                       *)
(***************************************************************************)
\* is_ev without the minimum-length test
is_ev_any_length(line) ==
    IF PrimaryMatch(line) /\ ~TrailingBEV(line) THEN TRUE
    ELSE IF SecondaryMatch(line) THEN TRUE
    ELSE FALSE

is_ev(line) ==
    IF Len(line) < MinLineLen THEN FALSE
    ELSE IF PrimaryMatch(line) /\ ~TrailingBEV(line) THEN TRUE
    ELSE IF SecondaryMatch(line) THEN TRUE
    ELSE FALSE

(***************************************************************************)
(* EVProcessor.extract_vehicle_info                                        *)
(***************************************************************************)
\* the empty dict {} returned for a rejected line
EmptyDict == [empty |-> TRUE]

\* the for loop over the capture patterns without its else branch
FuelSignature_patterns_only(line) ==
    IF Search1(line) > 0
    THEN Strip(SubSeq(line, Search1(line), Match1(line, Search1(line))))
    ELSE IF Search2(line) > 0
    THEN Strip(SubSeq(line, Search2(line), Match2(line, Search2(line))))
    ELSE IF Search3(line) > 0
    THEN Strip(SubSeq(line, Search3(line), Match3(line, Search3(line))))
    ELSE <<>>

\* the capture patterns tried in the reverse order, the fallbacks as they are
FuelSignature_short_first(line) ==
    IF Search3(line) > 0
    THEN Strip(SubSeq(line, Search3(line), Match3(line, Search3(line))))
    ELSE IF Search2(line) > 0
    THEN Strip(SubSeq(line, Search2(line), Match2(line, Search2(line))))
    ELSE IF Search1(line) > 0
    THEN Strip(SubSeq(line, Search1(line), Match1(line, Search1(line))))
    ELSE IF Contains(Upper(line), ELECTRIC) /\ ~Contains(Upper(line), HYBRID)
         THEN ELECTRIC
    ELSE IF EDash(line) /\ ~Contains(Upper(line), HYBRID) THEN EVEHICLE
    ELSE <<>>

\* the for/else over the three capture patterns and the fallbacks;
\* <<>> when record gets no 'COMBUSTIBLE' key
FuelSignature(line) ==
    IF Search1(line) > 0
    THEN Strip(SubSeq(line, Search1(line), Match1(line, Search1(line))))
    ELSE IF Search2(line) > 0
    THEN Strip(SubSeq(line, Search2(line), Match2(line, Search2(line))))
    ELSE IF Search3(line) > 0
    THEN Strip(SubSeq(line, Search3(line), Match3(line, Search3(line))))
    ELSE IF Contains(Upper(line), ELECTRIC) /\ ~Contains(Upper(line), HYBRID)
         THEN ELECTRIC
    ELSE IF EDash(line) /\ ~Contains(Upper(line), HYBRID) THEN EVEHICLE
    ELSE <<>>

\* extract_vehicle_info with the capture group around the marker alone,
\* r'\d{3,}(BEV)', and a validation that does not compare with 'BEV'
extract_marker_only(line) ==
    IF Len(line) < MinLineLen THEN EmptyDict
    ELSE LET marca  == Strip(Slice(line, 9, 39))
             modelo == Strip(Slice(line, 39, 69))
             fuel   == IF PrimaryMatch(line) THEN BEV ELSE FuelSignature(line)
         IN  IF marca = <<>> \/ modelo = <<>> \/ fuel = <<>>
             THEN EmptyDict
             ELSE [empty       |-> FALSE,
                   date        |-> Strip(Slice(line, 0, 9)),
                   MARCA       |-> marca,
                   MODELO      |-> modelo,
                   VIN         |-> Strip(Slice(line, 69, 92)),
                   COMBUSTIBLE |-> fuel]

\* extract_vehicle_info with a validation that does not test make and model
extract_unvalidated_make(line) ==
    IF Len(line) < MinLineLen THEN EmptyDict
    ELSE LET fuel == FuelSignature(line)
         IN  IF fuel = <<>> \/ fuel = BEV
             THEN EmptyDict
             ELSE [empty       |-> FALSE,
                   date        |-> Strip(Slice(line, 0, 9)),
                   MARCA       |-> Strip(Slice(line, 9, 39)),
                   MODELO      |-> Strip(Slice(line, 39, 69)),
                   VIN         |-> Strip(Slice(line, 69, 92)),
                   COMBUSTIBLE |-> fuel]

extract_vehicle_info(line) ==
    IF Len(line) < MinLineLen THEN EmptyDict
    ELSE LET marca  == Strip(Slice(line, 9, 39))
             modelo == Strip(Slice(line, 39, 69))
             fuel   == FuelSignature(line)
         IN  IF marca = <<>> \/ modelo = <<>> \/ fuel = <<>> \/ fuel = BEV
             THEN EmptyDict
             ELSE [empty       |-> FALSE,
                   date        |-> Strip(Slice(line, 0, 9)),
                   MARCA       |-> marca,
                   MODELO      |-> modelo,
                   VIN         |-> Strip(Slice(line, 69, 92)),
                   COMBUSTIBLE |-> fuel]

(***************************************************************************)
(* The fixed-width layout: `fields` of extract_vehicle_info.               *)
(***************************************************************************)
DateWidth == 9

MakeWidth == 30

ModelWidth == 30

VinWidth == 23

FuelOffset == 200

Spaces(n) == [i \in 1..n |-> " "]

\* str.ljust(n)
Ljust(s, n) == IF Len(s) >= n THEN s ELSE s \o Spaces(n - Len(s))

(***************************************************************************)
(* The lines the checks run on: a header of the four positional fields, a  *)
(* filler, and a fuel section made of tokens separated by single blanks.   *)
(***************************************************************************)
MaxTailTokens == 2

DATE == <<"2", "0", "2", "5", "0", "2", "2", "8">>

KIA == <<"K", "I", "A">>

ROUTED_KIA == <<"0", " ", "K", "I", "A">>

M3 == <<"M", "3">>

E_UP == <<"E", "-", "U", "P">>

VIN_A == <<"V", "A">>

VIN_B == <<"V", "B">>

D3BEV == <<"1", "0", "0", "B", "E", "V">>

D2BEV == <<"1", "2", "B", "E", "V">>

NUM6 == <<"1", "2", "3", "4", "5", "6">>

NUM4 == <<"1", "2", "3", "4">>

electric == <<"e", "l", "e", "c", "t", "r", "i", "c">>

Hybrid == <<"H", "y", "b", "r", "i", "d">>

WORD_X == <<"X">>

TailTokens == {BEV, D3BEV, D2BEV, NUM6, NUM4, ELECTRIC, electric, HYBRID, Hybrid, WORD_X}

RECURSIVE JoinTokens(_)
\* ' '.join(tokens)
JoinTokens(ts) ==
    IF ts = <<>> THEN <<>>
    ELSE IF Len(ts) = 1 THEN ts[1]
    ELSE ts[1] \o <<" ">> \o JoinTokens(Tail(ts))

Tails ==
    {JoinTokens(ts) : ts \in UNION {[1..n -> TailTokens] : n \in 0..MaxTailTokens}}

Header(make, model, vin) ==
    Ljust(DATE, DateWidth) \o Ljust(make, MakeWidth)
        \o Ljust(model, ModelWidth) \o Ljust(vin, VinWidth)

Headers ==
    {Header(KIA, M3, VIN_A), Header(KIA, M3, <<>>), Header(<<>>, M3, VIN_A),
     Header(KIA, <<>>, VIN_A), Header(KIA, E_UP, VIN_A), Header(ROUTED_KIA, M3, VIN_A)}

\* filler widths: the fuel section at its offset, and a line cut short
Fills == {FuelOffset - (DateWidth + MakeWidth + ModelWidth + VinWidth), 100}

LineEnds == {<<>>, <<"\n">>}

Lines ==
    {h \o Spaces(f) \o t \o e : h \in Headers, f \in Fills, t \in Tails, e \in LineEnds}

TESLA == <<"T", "E", "S", "L", "A">>

ROUTED_TESLA == <<"0", " ">> \o TESLA

MODEL3 == <<"M", "O", "D", "E", "L", "3">>

SIGNATURE == <<"1", "0", "0", "0", "B", "E", "V", " ", "1", "2", "3", "4", "5", "6">>

\* "20250228" + "0 TESLA".ljust(30) + "MODEL3".ljust(30), padded to 200
\* characters, then the fuel signature: the date takes 8 characters
ScenarioLine ==
    Ljust(DATE \o Ljust(ROUTED_TESLA, MakeWidth) \o Ljust(MODEL3, ModelWidth),
          FuelOffset) \o SIGNATURE

\* the same fields with the date in its 9-character field
ScenarioLineAligned ==
    Ljust(Ljust(DATE, DateWidth) \o Ljust(ROUTED_TESLA, MakeWidth)
              \o Ljust(MODEL3, ModelWidth), FuelOffset) \o SIGNATURE

ScenarioLines ==
    {l \o e : l \in {ScenarioLine, ScenarioLineAligned}, e \in LineEnds}

\* a line whose fuel section is the tokens ts
TokenLine(ts) ==
    Header(KIA, M3, VIN_A)
        \o Spaces(FuelOffset - (DateWidth + MakeWidth + ModelWidth + VinWidth))
        \o JoinTokens(ts)

\* '100BEV BEV 123456': r'\d{3,}BEV' occurs before r'BEV\s+\d{5,}'
LINE_3_THEN_2 == TokenLine(<<D3BEV, BEV, NUM6>>)

\* 'BEV 123456 12BEV 1234': r'BEV\s+\d{5,}' occurs before r'\d+BEV\s+\d+'
LINE_2_THEN_1 == TokenLine(<<BEV, NUM6, D2BEV, NUM4>>)

\* lines in which a pattern of a lower priority occurs before one of a
\* higher priority
PriorityLines == {LINE_3_THEN_2, LINE_2_THEN_1}

(***************************************************************************)
(* Numbers in text: f"{year}", f"{month:02d}" and the digits of a date.    *)
(***************************************************************************)
DigitSeq == <<"0", "1", "2", "3", "4", "5", "6", "7", "8", "9">>

DigitChar(d) == DigitSeq[d + 1]

DigitVal(c) == CHOOSE d \in 0..9 : DigitSeq[d + 1] = c

RECURSIVE Decimal(_)
\* f"{n}" for n >= 0
Decimal(n) ==
    IF n < 10 THEN <<DigitChar(n)>>
    ELSE Decimal(n \div 10) \o <<DigitChar(n % 10)>>

\* f"{n:02d}"
Pad2(n) == IF n < 10 THEN <<"0">> \o Decimal(n) ELSE Decimal(n)

RECURSIVE ParseInt(_)
\* int(digits)
ParseInt(ds) ==
    IF ds = <<>> THEN 0
    ELSE 10 * ParseInt(SubSeq(ds, 1, Len(ds) - 1)) + DigitVal(ds[Len(ds)])

(***************************************************************************)
(* File names.                                                             *)
(***************************************************************************)
EXPORT_MAT == <<"e", "x", "p", "o", "r", "t", "_", "m", "a", "t", "_">>

TXT == <<".", "t", "x", "t">>

EV_DATA == <<"e", "v", "_", "d", "a", "t", "a", "_">>

CSV == <<".", "c", "s", "v">>

\* f"{self.report_dir}/ev_data_{year}_{month:02d}.csv" inside report_dir
OutputFile(year, month) ==
    EV_DATA \o Decimal(year) \o <<"_">> \o Pad2(month) \o CSV

\* the return value "" of process_month
NoPath == <<>>

\* glob.glob(f"{self.data_dir}/export_mat_{year}{month:02d}*.txt") accepts name
GlobMatch(name, year, month) ==
    LET prefix == EXPORT_MAT \o Decimal(year) \o Pad2(month)
    IN  /\ Len(name) >= Len(prefix) + Len(TXT)
        /\ LitAt(prefix, name, 1)
        /\ LitAt(TXT, name, Len(name) - Len(TXT) + 1)

DateDigits == 8

\* r'export_mat_(\d{8})\.txt' matches name at position i
DateMatchAt(name, i) ==
    /\ LitAt(EXPORT_MAT, name, i)
    /\ i + Len(EXPORT_MAT) + DateDigits - 1 <= Len(name)
    /\ \A k \in 0..(DateDigits - 1) : IsDigit(name[i + Len(EXPORT_MAT) + k])
    /\ LitAt(TXT, name, i + Len(EXPORT_MAT) + DateDigits)

\* date_match.group(1) of re.search on the base name; <<>> when there is none
DateGroup(name) ==
    LET hits == {i \in 1..Len(name) : DateMatchAt(name, i)}
    IN  IF hits = {} THEN <<>>
        ELSE LET i == CHOOSE h \in hits : \A j \in hits : h <= j
             IN  SubSeq(name, i + Len(EXPORT_MAT), i + Len(EXPORT_MAT) + DateDigits - 1)

IsLeap(y) == (y % 4 = 0 /\ y % 100 # 0) \/ y % 400 = 0

DaysIn(y, m) ==
    IF m = 2 THEN (IF IsLeap(y) THEN 29 ELSE 28)
    ELSE IF m \in {4, 6, 9, 11} THEN 30 ELSE 31

\* datetime.strptime(digits, '%Y%m%d'): ok is FALSE when it raises ValueError
strptime(ds) ==
    LET y == ParseInt(SubSeq(ds, 1, 4))
        m == ParseInt(SubSeq(ds, 5, 6))
        d == ParseInt(SubSeq(ds, 7, 8))
    IN  [ok    |-> y >= 1 /\ m \in 1..12 /\ d >= 1 /\ d <= DaysIn(y, m),
         year  |-> y,
         month |-> m,
         day   |-> d]

(***************************************************************************)
(* The lines that occur in the source files the checks run on.             *)
(***************************************************************************)
RawLine(make, model, vin, tail) ==
    Header(make, model, vin)
        \o Spaces(FuelOffset - (DateWidth + MakeWidth + ModelWidth + VinWidth))
        \o tail \o <<"\n">>

LN_A1 == RawLine(KIA, M3, VIN_A, D2BEV \o <<" ">> \o NUM4)

LN_A2 == RawLine(KIA, M3, VIN_A, ELECTRIC)

LN_N1 == RawLine(KIA, M3, <<>>, D3BEV)

LN_N2 == RawLine(KIA, E_UP, <<>>, WORD_X)

LN_NOMAKE == RawLine(<<>>, M3, VIN_A, D3BEV)

LN_HYB == RawLine(KIA, M3, VIN_B, BEV)

\* a file is kept as the sequence of the names of its lines
\* a line of blanks
LN_BLANK == <<" ", " ", "\n">>

FileLines == {"LN_A1", "LN_A2", "LN_N1", "LN_N2", "LN_NOMAKE", "LN_HYB", "LN_BLANK"}

\* the text of the line of that name
LineText(id) ==
    CASE id = "LN_A1"     -> LN_A1
      [] id = "LN_A2"     -> LN_A2
      [] id = "LN_N1"     -> LN_N1
      [] id = "LN_N2"     -> LN_N2
      [] id = "LN_NOMAKE" -> LN_NOMAKE
      [] id = "LN_HYB"    -> LN_HYB
      [] id = "LN_BLANK"  -> LN_BLANK

\* the lines of the files of a directory of source files
DirLines == {"LN_A1", "LN_A2", "LN_N1", "LN_N2", "LN_NOMAKE"}

\* the lines of a downloaded file
SaveLines == {"LN_A1", "LN_HYB"}

\* the lines of the file that process_file is called on by itself
ReadLines == {"LN_A1", "LN_HYB", "LN_BLANK"}

(***************************************************************************)
(* EVProcessor.process_file                                                *)
(***************************************************************************)
\* the body of the loop over the lines of the file, up to the date fields:
\* the record that a physical line gives, EmptyDict when it gives none
LineRecord(raw) ==
    LET stripped == Strip(raw)
    IN  IF stripped = <<>> THEN EmptyDict
        ELSE IF ~is_ev(stripped) THEN EmptyDict
        ELSE extract_vehicle_info(stripped)

\* LineRecord, computed once for each line that occurs in a source file
ParsedLines == {<<id, LineRecord(LineText(id))>> : id \in FileLines}

\* the date fields added to a record before it is appended to `records`;
\* an empty dict is not appended
DatedRecord(record, file_date) ==
    IF record = EmptyDict THEN <<>>
    ELSE << [empty             |-> FALSE,
             date              |-> record.date,
             MARCA             |-> record.MARCA,
             MODELO            |-> record.MODELO,
             VIN               |-> record.VIN,
             COMBUSTIBLE       |-> record.COMBUSTIBLE,
             registration_date |-> <<file_date.year, file_date.month, file_date.day>>,
             year              |-> file_date.year,
             month             |-> file_date.month,
             day               |-> file_date.day] >>

\* the records (none or one) that the line named id adds to `records`
LineRecords(id, file_date) ==
    DatedRecord((CHOOSE p \in ParsedLines : p[1] = id)[2], file_date)

RECURSIVE FileRecords(_, _)
\* `records` after the loop over the lines
FileRecords(content, file_date) ==
    IF content = <<>> THEN <<>>
    ELSE LineRecords(Head(content), file_date) \o FileRecords(Tail(content), file_date)

\* a pass over the file that reads every line
NoRaise == [raises |-> FALSE, at |-> 0]

\* both passes read every line (the fallback pass is then never started)
ReadsOk == [primary |-> NoRaise, fallback |-> NoRaise]

\* the lines that the loop body of a pass gets: all of them, or the first
\* pass.at when open() or the read of the next line raises (at = 0: open()
\* or the first read raises)
PassLines(content, pass) ==
    IF pass.raises THEN SubSeq(content, 1, Min(pass.at, Len(content))) ELSE content

\* process_file(file_path) for the file `name` with the lines `content`, the
\* reads going as io says.  raised: the call ends in an exception; opened:
\* the call reached open(); read: the lines read, both passes counted;
\* rows: the rows of the returned DataFrame.  The except branch of the
\* primary pass starts the fallback pass on the same list `records`.
process_file(name, content, io) ==
    LET digits == DateGroup(name)
    IN  IF digits = <<>>
        THEN [raised |-> FALSE, opened |-> FALSE, read |-> 0, rows |-> <<>>]
        ELSE LET file_date == strptime(digits)
             IN  IF ~file_date.ok
                 THEN [raised |-> TRUE, opened |-> FALSE, read |-> 0, rows |-> <<>>]
                 ELSE [raised |-> FALSE, opened |-> TRUE,
                       read   |-> Len(PassLines(content, io.primary))
                                    + (IF io.primary.raises
                                       THEN Len(PassLines(content, io.fallback))
                                       ELSE 0),
                       rows   |-> FileRecords(PassLines(content, io.primary), file_date)
                                    \o (IF io.primary.raises
                                        THEN FileRecords(PassLines(content, io.fallback),
                                                         file_date)
                                        ELSE <<>>)]

\* is_ev of the stripped line, computed once for each line that occurs in a
\* source file
ClassifiedLines == {<<id, is_ev(Strip(LineText(id)))>> : id \in FileLines}

\* the line named id is blank after strip()
BlankLines == {id \in FileLines : Strip(LineText(id)) = <<>>}

\* the loop body with extract_vehicle_info called whatever is_ev returned
LineCalls_unconditional(id, fallback) ==
    IF ~fallback /\ id \in BlankLines THEN <<>>
    ELSE << [op |-> "is_ev", line |-> id, ret |-> (CHOOSE p \in ClassifiedLines : p[1] = id)[2]],
            [op |-> "extract_vehicle_info", line |-> id,
             ret |-> (CHOOSE p \in ParsedLines : p[1] = id)[2] # EmptyDict] >>

\* the calls that the loop body makes for the line named id, in order, each
\* with the stripped line as its argument: the primary pass skips a blank
\* line before is_ev, the fallback pass hands every line to is_ev; ret is
\* what is_ev returned, and whether extract_vehicle_info returned a record
LineCalls(id, fallback) ==
    IF ~fallback /\ id \in BlankLines THEN <<>>
    ELSE IF ~(CHOOSE p \in ClassifiedLines : p[1] = id)[2]
    THEN << [op |-> "is_ev", line |-> id, ret |-> FALSE] >>
    ELSE << [op |-> "is_ev", line |-> id, ret |-> TRUE],
            [op |-> "extract_vehicle_info", line |-> id,
             ret |-> (CHOOSE p \in ParsedLines : p[1] = id)[2] # EmptyDict] >>

RECURSIVE PassCalls(_, _)
\* the calls of one pass over the lines
PassCalls(content, fallback) ==
    IF content = <<>> THEN <<>>
    ELSE LineCalls(Head(content), fallback) \o PassCalls(Tail(content), fallback)

\* the calls of is_ev and extract_vehicle_info that process_file makes, in
\* order
process_file_calls(name, content, io) ==
    IF DateGroup(name) = <<>> \/ ~strptime(DateGroup(name)).ok THEN <<>>
    ELSE PassCalls(PassLines(content, io.primary), FALSE)
             \o (IF io.primary.raises
                 THEN PassCalls(PassLines(content, io.fallback), TRUE)
                 ELSE <<>>)

(***************************************************************************)
(* EVProcessor.process_month                                               *)
(***************************************************************************)
\* 'VIN' in combined_data.columns: the columns are the keys of the records
HasVINColumn(rows) == \E i \in 1..Len(rows) : "VIN" \in DOMAIN rows[i]

\* the subset chosen from the VIN of the first row instead of the columns
DedupKey_by_first_row(rows, r) ==
    IF rows # <<>> /\ rows[1].VIN # <<>> THEN <<r.VIN, r.registration_date>>
    ELSE <<r.MARCA, r.MODELO, r.registration_date>>

\* the subset handed to drop_duplicates
DedupKey(rows, r) ==
    IF HasVINColumn(rows) THEN <<r.VIN, r.registration_date>>
    ELSE <<r.MARCA, r.MODELO, r.registration_date>>

RECURSIVE KeepFirst(_, _, _)
\* DataFrame.drop_duplicates(subset=...), keep='first': rows left to right,
\* a row is dropped when its key was seen before
KeepFirst(all, rows, seen) ==
    IF rows = <<>> THEN <<>>
    ELSE LET k == DedupKey(all, Head(rows))
         IN  IF k \in seen THEN KeepFirst(all, Tail(rows), seen)
             ELSE <<Head(rows)>> \o KeepFirst(all, Tail(rows), seen \cup {k})

\* drop_duplicates left out: every row is kept
drop_duplicates_none(rows) == rows

RECURSIVE KeepLast(_, _)
\* drop_duplicates with keep='last'
KeepLast(all, rows) ==
    IF rows = <<>> THEN <<>>
    ELSE LET k == DedupKey(all, Head(rows))
         IN  IF \E i \in 2..Len(rows) : DedupKey(all, rows[i]) = k
             THEN KeepLast(all, Tail(rows))
             ELSE <<Head(rows)>> \o KeepLast(all, Tail(rows))

drop_duplicates_keep_last(rows) == KeepLast(rows, rows)

drop_duplicates(rows) == KeepFirst(rows, rows, {})

\* what one pass of the loop over files appends to all_data: nothing when
\* process_file raised (the except branch), else the rows of the frame
FrameRows(r) == IF r.raised THEN <<>> ELSE r.rows

RECURSIVE ConcatFrames_abort(_, _, _)
\* the loop over files without the try/except around process_file: the
\* first exception ends the loop
ConcatFrames_abort(files, dir, io) ==
    IF files = <<>> THEN <<>>
    ELSE IF process_file(Head(files), dir[Head(files)], io[Head(files)]).raised
    THEN <<>>
    ELSE process_file(Head(files), dir[Head(files)], io[Head(files)]).rows
             \o ConcatFrames_abort(Tail(files), dir, io)

RECURSIVE ConcatFrames(_, _, _)
\* the loop over files and pd.concat(all_data): a file whose processing
\* raised, or that gave an empty frame, adds nothing; io[n] says how the
\* reads of file n go
ConcatFrames(files, dir, io) ==
    IF files = <<>> THEN <<>>
    ELSE FrameRows(process_file(Head(files), dir[Head(files)], io[Head(files)]))
             \o ConcatFrames(Tail(files), dir, io)

\* the files that process_file opened during the loop
OpenedFiles(files, dir, io) ==
    SelectSeq(files, LAMBDA n : process_file(n, dir[n], io[n]).opened)

\* the end of process_month with the output file removed when there is no
\* data
SaveCombined_unlink(output_file, combined, opened, rep) ==
    IF combined = <<>>
    THEN [ret |-> NoPath, rep |-> [f \in DOMAIN rep \ {output_file} |-> rep[f]],
          globbed |-> TRUE, opened |-> opened, wrote |-> FALSE]
    ELSE [ret |-> output_file,
          rep |-> [f \in DOMAIN rep \cup {output_file} |->
                      IF f = output_file THEN drop_duplicates(combined)
                      ELSE rep[f]],
          globbed |-> TRUE, opened |-> opened, wrote |-> TRUE]

\* the end of process_month, all_data being the frames of the files in
\* `opened`: no data gives "" and writes nothing, else the frames are
\* concatenated, deduplicated and written to output_file
SaveCombined(output_file, combined, opened, rep) ==
    IF combined = <<>>
    THEN [ret |-> NoPath, rep |-> rep, globbed |-> TRUE,
          opened |-> opened, wrote |-> FALSE]
    ELSE [ret |-> output_file,
          rep |-> [f \in DOMAIN rep \cup {output_file} |->
                      IF f = output_file THEN drop_duplicates(combined)
                      ELSE rep[f]],
          globbed |-> TRUE, opened |-> opened, wrote |-> TRUE]

\* process_month without the test for an existing output file
process_month_always(year, month, force, files, dir, rep, io) ==
    IF files = <<>>
    THEN [ret |-> NoPath, rep |-> rep, globbed |-> TRUE,
          opened |-> <<>>, wrote |-> FALSE]
    ELSE SaveCombined(OutputFile(year, month), ConcatFrames(files, dir, io),
                      OpenedFiles(files, dir, io), rep)

\* one call process_month(year, month, force) in a data directory dir and a
\* report directory rep, glob.glob having listed the month's files as `files`
process_month(year, month, force, files, dir, rep, io) ==
    IF OutputFile(year, month) \in DOMAIN rep /\ ~force
    THEN [ret |-> OutputFile(year, month), rep |-> rep, globbed |-> FALSE,
          opened |-> <<>>, wrote |-> FALSE]
    ELSE IF files = <<>>
    THEN [ret |-> NoPath, rep |-> rep, globbed |-> TRUE,
          opened |-> <<>>, wrote |-> FALSE]
    ELSE SaveCombined(OutputFile(year, month), ConcatFrames(files, dir, io),
                      OpenedFiles(files, dir, io), rep)

\* main(): the exit status for the value that process_month returned
main(output_file) == IF output_file = NoPath THEN 1 ELSE 0

(***************************************************************************)
(* process_month statement by statement: the position in the call is       *)
(* `phase`, `todo` the files the loop has not reached, `all_data` the rows *)
(* of the frames appended so far, `combined` the merged frame, `writes`    *)
(* the number of calls of to_csv.                                          *)
(***************************************************************************)
\* the call up to the loop over the files
start_month(year, month, force, files, rep) ==
    IF OutputFile(year, month) \in DOMAIN rep /\ ~force
    THEN [done |-> TRUE, phase |-> "done", year |-> year, month |-> month,
          force |-> force, files |-> <<>>, todo |-> <<>>, all_data |-> <<>>,
          combined |-> <<>>, writes |-> 0, ret |-> OutputFile(year, month)]
    ELSE IF files = <<>>
    THEN [done |-> TRUE, phase |-> "done", year |-> year, month |-> month,
          force |-> force, files |-> files, todo |-> <<>>, all_data |-> <<>>,
          combined |-> <<>>, writes |-> 0, ret |-> NoPath]
    ELSE [done |-> FALSE, phase |-> "loop", year |-> year, month |-> month,
          force |-> force, files |-> files, todo |-> files, all_data |-> <<>>,
          combined |-> <<>>, writes |-> 0, ret |-> NoPath]

\* the dataset file after to_csv(output_file) of the frame `combined`
to_csv(output_file, combined, rep) ==
    [f \in DOMAIN rep \cup {output_file} |->
        IF f = output_file THEN combined ELSE rep[f]]

\* one statement of a call that saves the rows collected so far after every
\* file of the loop
month_step_eager(c, dir, rep) ==
    CASE c.phase = "loop" /\ c.todo # <<>> ->
            [call |-> [c EXCEPT !.todo = Tail(c.todo),
                                !.all_data = c.all_data \o
                                    FrameRows(process_file(Head(c.todo), dir[Head(c.todo)],
                                                           ReadsOk)),
                                !.writes = c.writes + 1],
             rep  |-> to_csv(OutputFile(c.year, c.month),
                             drop_duplicates(c.all_data \o
                                 FrameRows(process_file(Head(c.todo), dir[Head(c.todo)],
                                                        ReadsOk))),
                             rep)]
      [] c.phase = "loop" /\ c.todo = <<>> /\ c.all_data = <<>> ->
            [call |-> [c EXCEPT !.phase = "done", !.done = TRUE], rep |-> rep]
      [] c.phase = "loop" /\ c.todo = <<>> /\ c.all_data # <<>> ->
            [call |-> [c EXCEPT !.phase = "merge"], rep |-> rep]
      [] c.phase = "merge" ->
            [call |-> [c EXCEPT !.phase = "save",
                                !.combined = drop_duplicates(c.all_data)],
             rep  |-> rep]
      [] c.phase = "save" ->
            [call |-> [c EXCEPT !.phase = "done", !.done = TRUE,
                                !.writes = c.writes + 1,
                                !.ret = OutputFile(c.year, c.month)],
             rep  |-> to_csv(OutputFile(c.year, c.month), c.combined, rep)]

\* one statement of the call c: a pass of the loop over the files (the
\* except branch appends nothing), the test `if not all_data`, pd.concat
\* with drop_duplicates, and to_csv
month_step(c, dir, rep) ==
    CASE c.phase = "loop" /\ c.todo # <<>> ->
            [call |-> [c EXCEPT !.todo = Tail(c.todo),
                                !.all_data = c.all_data \o
                                    FrameRows(process_file(Head(c.todo), dir[Head(c.todo)],
                                                           ReadsOk))],
             rep  |-> rep]
      [] c.phase = "loop" /\ c.todo = <<>> /\ c.all_data = <<>> ->
            [call |-> [c EXCEPT !.phase = "done", !.done = TRUE], rep |-> rep]
      [] c.phase = "loop" /\ c.todo = <<>> /\ c.all_data # <<>> ->
            [call |-> [c EXCEPT !.phase = "merge"], rep |-> rep]
      [] c.phase = "merge" ->
            [call |-> [c EXCEPT !.phase = "save",
                                !.combined = drop_duplicates(c.all_data)],
             rep  |-> rep]
      [] c.phase = "save" ->
            [call |-> [c EXCEPT !.phase = "done", !.done = TRUE,
                                !.writes = c.writes + 1,
                                !.ret = OutputFile(c.year, c.month)],
             rep  |-> to_csv(OutputFile(c.year, c.month), c.combined, rep)]

(***************************************************************************)
(* The source files the checks run on.                                     *)
(***************************************************************************)
D_0201 == <<"2", "0", "2", "5", "0", "2", "0", "1">>

D_0202 == <<"2", "0", "2", "5", "0", "2", "0", "2">>

F_0201 == EXPORT_MAT \o D_0201 \o TXT

F_0202 == EXPORT_MAT \o D_0202 \o TXT

\* a second file whose name carries the date of F_0201
F_0201_COPY == EXPORT_MAT \o D_0201 \o TXT \o TXT

Names == {F_0201, F_0202, F_0201_COPY}

\* the monthly file of the downloader: its name holds six digits
F_02 == EXPORT_MAT \o <<"2", "0", "2", "5", "0", "2">> \o TXT

\* eight digits that are no calendar date
D_0230 == <<"2", "0", "2", "5", "0", "2", "3", "0">>

F_0230 == EXPORT_MAT \o D_0230 \o TXT

\* the files that process_file is called on by itself
FileNames == {F_0201, F_02, F_0230}

\* the names of the files that the downloader stores: a per-day file
\* (get_daily_data) and the monthly file (get_monthly_data)
SaveNames == {F_0201, F_02}

MaxFiles == 2

MaxLines == 2

MaxDirLines == 3

MaxSaves == 2

MaxSaveLines == 1

Years == {2025}

Months == {2, 3}

\* the files of at most n lines drawn from ls
Contents(ls, n) == UNION {[1..k -> ls] : k \in 0..n}

EmptyDir == [n \in {} |-> <<>>]

RECURSIVE DirsOn(_, _, _)
\* the directories that hold exactly the files S, each of at most MaxLines
\* lines drawn from ls, `budget` lines in all
DirsOn(S, budget, ls) ==
    IF S = {} THEN {EmptyDir}
    ELSE LET n == CHOOSE x \in S : TRUE
         IN  UNION {LET rest == DirsOn(S \ {n}, budget - k, ls)
                    IN  {[m \in S |-> IF m = n THEN c ELSE dir[m]] :
                           dir \in rest, c \in [1..k -> ls]} :
                      k \in 0..Min(MaxLines, budget)}

\* the data directories of at most MaxFiles files of at most MaxLines lines,
\* MaxDirLines lines in all
Dirs ==
    UNION {DirsOn(S, MaxDirLines, DirLines) :
              S \in {T \in SUBSET Names : Cardinality(T) <= MaxFiles}}

D_0301 == <<"2", "0", "2", "5", "0", "3", "0", "1">>

\* a name that starts as a file of February and holds the name of a file of
\* March: export_mat_202502_export_mat_20250301.txt
F_EMBED ==
    EXPORT_MAT \o <<"2", "0", "2", "5", "0", "2", "_">> \o EXPORT_MAT \o D_0301 \o TXT

\* the names of the files of a directory in which some names hold no date,
\* or a date that is not the one the name starts with
SkipNames == {F_0201, F_0202, F_02, F_0230, F_EMBED}

\* the data directories with such names: at most MaxFiles files of at most
\* MaxLines lines, MaxDirLines lines in all
SkipDirs ==
    UNION {DirsOn(S, MaxDirLines, SaveLines) :
              S \in {T \in SUBSET SkipNames : Cardinality(T) <= MaxFiles}}

\* the names of the files of the directories that a call is followed
\* through statement by statement
StepNames == {F_0201, F_0202, F_0230}

StepDirs ==
    UNION {DirsOn(S, MaxDirLines, SaveLines) :
              S \in {T \in SUBSET StepNames : Cardinality(T) <= MaxFiles}}

\* the orders in which a directory listing can return the files of S
Perms(S) ==
    {f \in [1..Cardinality(S) -> S] : \A i, j \in 1..Cardinality(S) : f[i] = f[j] => i = j}

(***************************************************************************)
(* State.                                                                  *)
(***************************************************************************)
VARIABLES
    lineIn,        \* the line handed to the classifier and the extractor
    evDone,      \* is_ev has returned for the line
    accepted,    \* the value is_ev returned
    exDone,      \* extract_vehicle_info has returned for the line
    extracted,   \* the value extract_vehicle_info returned
    data,        \* data_dir: file name -> names of the lines of the file
    report,      \* report_dir: dataset file name -> rows of the dataset
    call,        \* the last call of process_month and what it did
    prev,        \* the call of process_month before the last one
    dirty,       \* data_dir changed since the last call of process_month
    dirExists,   \* the directory data_dir exists
    saves        \* number of files stored so far

lineVars == <<lineIn, evDone, accepted, exDone, extracted>>

monthVars == <<data, report, call, prev, dirty, dirExists, saves>>

vars ==
    <<lineIn, evDone, accepted, exDone, extracted, data, report, call, prev, dirty,
      dirExists, saves>>

NoCall == [done |-> FALSE]

InitMonthIdle ==
    /\ report = EmptyDir
    /\ call = NoCall
    /\ prev = NoCall
    /\ dirty = FALSE
    /\ saves = 0

LineIdle ==
    /\ lineIn = <<>>
    /\ evDone = FALSE
    /\ accepted = FALSE
    /\ exDone = FALSE
    /\ extracted = EmptyDict

(***************************************************************************)
(* The classifier and the extractor applied to one line.                   *)
(***************************************************************************)
InitLine ==
    /\ lineIn \in Lines \cup ScenarioLines \cup PriorityLines
    /\ evDone = FALSE
    /\ accepted = FALSE
    /\ exDone = FALSE
    /\ extracted = EmptyDict
    /\ data = EmptyDir
    /\ dirExists = TRUE
    /\ InitMonthIdle

CallIsEv ==
    /\ ~evDone
    /\ evDone' = TRUE
    /\ accepted' = is_ev(lineIn)
    /\ UNCHANGED <<lineIn, exDone, extracted>>
    /\ UNCHANGED monthVars

CallExtract ==
    /\ ~exDone
    /\ exDone' = TRUE
    /\ extracted' = extract_vehicle_info(lineIn)
    /\ UNCHANGED <<lineIn, evDone, accepted>>
    /\ UNCHANGED monthVars

NextLine == CallIsEv \/ CallExtract

SpecLine == InitLine /\ [][NextLine]_vars

(***************************************************************************)
(* The month aggregator run on a directory of source files.                *)
(***************************************************************************)
\* what glob.glob can return for the month, in any order; nothing is listed
\* when the call returns at the existence check
Listings(year, month, force) ==
    IF OutputFile(year, month) \in DOMAIN report /\ ~force THEN {<<>>}
    ELSE Perms({n \in DOMAIN data : GlobMatch(n, year, month)})

\* the ways the reads of a file with the lines `content` can go: both
\* passes read every line, or the primary pass raises after some lines and
\* the fallback pass reads every line or raises after some lines
FileFaults(content) ==
    {ReadsOk} \cup
    {[primary |-> [raises |-> TRUE, at |-> k], fallback |-> f] :
        k \in 0..Len(content),
        f \in {NoRaise} \cup {[raises |-> TRUE, at |-> j] : j \in 0..Len(content)}}

\* every read of every listed file succeeds
NoFaults(files) == [n \in {files[i] : i \in 1..Len(files)} |-> ReadsOk]

\* main(): EVProcessor() creates the directories that are missing, then one
\* run of process_month(year, month, force), glob.glob listing `files` and
\* the reads going as io says
RunMonth(year, month, force, files, io) ==
    \E r \in {process_month(year, month, force, files, data, report, io)} :
        /\ report' = r.rep
        /\ call' = [done |-> TRUE, year |-> year, month |-> month,
                    force |-> force, files |-> files, ret |-> r.ret,
                    globbed |-> r.globbed, opened |-> r.opened,
                    wrote |-> r.wrote, before |-> report, dirty |-> dirty,
                    exit |-> main(r.ret), io |-> io, missing |-> ~dirExists]
        /\ prev' = IF call.done
                   THEN [done |-> TRUE, year |-> call.year, month |-> call.month,
                         force |-> call.force, ret |-> call.ret]
                   ELSE NoCall
        /\ dirty' = FALSE
        /\ dirExists' = TRUE
        /\ UNCHANGED <<data, saves>>
        /\ UNCHANGED lineVars

\* a run in which every read succeeds
ProcessMonth(year, month, force) ==
    \E files \in Listings(year, month, force) :
        RunMonth(year, month, force, files, NoFaults(files))

\* DGTDownloader.save_data: a downloaded file is stored in the data directory,
\* which DGTDownloader() created if it was missing
SaveData(name, content) ==
    /\ content # <<>>
    /\ saves < MaxSaves
    /\ saves' = saves + 1
    /\ data' = [n \in DOMAIN data \cup {name} |-> IF n = name THEN content ELSE data[n]]
    /\ dirty' = TRUE
    /\ dirExists' = TRUE
    /\ UNCHANGED <<report, call, prev>>
    /\ UNCHANGED lineVars

\* before the first run the directory data_dir may be missing
Init ==
    /\ LineIdle
    /\ data = EmptyDir
    /\ dirExists \in BOOLEAN
    /\ InitMonthIdle

Next ==
    \/ \E name \in SaveNames, content \in Contents(SaveLines, MaxSaveLines) :
          SaveData(name, content)
    \/ \E year \in Years, month \in Months, force \in BOOLEAN : ProcessMonth(year, month, force)

Spec == Init /\ [][Next]_vars

(***************************************************************************)
(* process_file called on one file.                                        *)
(***************************************************************************)
InitFile ==
    /\ LineIdle
    /\ data \in {[n \in {name} |-> content] :
                   name \in FileNames, content \in Contents(ReadLines, MaxLines)}
    /\ dirExists = TRUE
    /\ InitMonthIdle

\* one call process_file(file_path), the reads going as io says
ProcessFile(name, io) ==
    /\ ~call.done
    /\ \E r \in {process_file(name, data[name], io)} :
          call' = [done |-> TRUE, file |-> name, io |-> io, raised |-> r.raised,
                   opened |-> r.opened, read |-> r.read, rows |-> r.rows,
                   calls |-> process_file_calls(name, data[name], io)]
    /\ UNCHANGED <<data, report, prev, dirty, dirExists, saves>>
    /\ UNCHANGED lineVars

NextFile == \E name \in DOMAIN data : \E io \in FileFaults(data[name]) : ProcessFile(name, io)

SpecFile == InitFile /\ [][NextFile]_vars

\* the aggregator run on a fixed directory of source files
InitMerge ==
    /\ LineIdle
    /\ data \in Dirs
    /\ dirExists = TRUE
    /\ InitMonthIdle

\* one run of the aggregator, from an empty report directory
NextMerge ==
    \E year \in Years, month \in Months, force \in BOOLEAN :
        ~call.done /\ ProcessMonth(year, month, force)

SpecMerge == InitMerge /\ [][NextMerge]_vars

\* the aggregator run on a directory in which some file names hold no date
InitSkip ==
    /\ LineIdle
    /\ data \in SkipDirs
    /\ dirExists = TRUE
    /\ InitMonthIdle

SpecSkip == InitSkip /\ [][NextMerge]_vars

(***************************************************************************)
(* One call of the aggregator followed statement by statement.             *)
(***************************************************************************)
InitSteps ==
    /\ LineIdle
    /\ data \in StepDirs
    /\ dirExists = TRUE
    /\ InitMonthIdle

\* process_month(year, month, force) is entered and runs up to the loop
StartMonth(year, month, force) ==
    /\ call = NoCall
    /\ \E files \in Listings(year, month, force) :
          call' = start_month(year, month, force, files, report)
    /\ UNCHANGED <<data, report, prev, dirty, dirExists, saves>>
    /\ UNCHANGED lineVars

\* the next statement of the call
StepMonth ==
    /\ call # NoCall
    /\ ~call.done
    /\ \E r \in {month_step(call, data, report)} :
          /\ call' = r.call
          /\ report' = r.rep
    /\ UNCHANGED <<data, prev, dirty, dirExists, saves>>
    /\ UNCHANGED lineVars

NextSteps ==
    \/ \E year \in Years, month \in Months, force \in BOOLEAN : StartMonth(year, month, force)
    \/ StepMonth

SpecSteps == InitSteps /\ [][NextSteps]_vars

(***************************************************************************)
(* Properties of the classifier and the extractor (SpecLine).              *)
(***************************************************************************)
\* the only occurrence of 'BEV' in s is a whitespace-bounded token at the end
OnlyTrailingBEV(s) ==
    LET occ == {i \in 1..Len(s) : LitAt(BEV, s, i)}
    IN  /\ Cardinality(occ) = 1
        /\ \A i \in occ :
              /\ (i = 1 \/ IsSpace(s[i - 1]))
              /\ SpaceRunEnd(s, i + 3) = Len(s)

\* s holds a whitespace-bounded token 'BEV' with no digit next to it
BareBEVToken(s) ==
    \E i \in 1..Len(s) :
        /\ LitAt(BEV, s, i)
        /\ (i = 1 \/ IsSpace(s[i - 1]))
        /\ (i + 3 > Len(s) \/ IsSpace(s[i + 3]))

\* C1: a line whose only occurrence of 'BEV' is a trailing token is rejected
\* by is_ev, whatever else the line contains.
C1_TrailingBEVRejected ==
    (evDone /\ OnlyTrailingBEV(lineIn)) => ~accepted

\* C2: for a line of at least 200 characters that matches a primary pattern,
\* is_ev is decided by the exclusion rule alone: accepted exactly when 'BEV'
\* is not a trailing token; the secondary signal is not consulted.
C2_ExclusionDecides ==
    (evDone /\ Len(lineIn) >= MinLineLen /\ PrimaryMatch(lineIn))
        => (accepted <=> ~TrailingBEV(lineIn))

\* C3: for a line shorter than 200 characters is_ev returns false and
\* extract_vehicle_info returns no record.
C3_ShortLineRejected ==
    Len(lineIn) < MinLineLen
        => /\ evDone => ~accepted
           /\ exDone => extracted = EmptyDict

\* a line one character short of the minimum that carries a primary pattern,
\* a make and a model, after both operations returned
C3_Witness ==
    /\ evDone
    /\ exDone
    /\ Len(lineIn) = MinLineLen - 1
    /\ PrimaryMatch(lineIn)
    /\ ~TrailingBEV(lineIn)
    /\ Strip(Slice(lineIn, 9, 39)) # <<>>
    /\ Strip(Slice(lineIn, 39, 69)) # <<>>

\* C7: for a line accepted by is_ev, extract_vehicle_info never returns a
\* record whose COMBUSTIBLE is exactly 'BEV'.
C7_NeverBareBEV ==
    (evDone /\ accepted /\ exDone /\ extracted # EmptyDict)
        => extracted.COMBUSTIBLE # BEV

\* an accepted line that holds a bare 'BEV' token and a primary pattern, and
\* for which a record was returned
C7_Witness ==
    /\ evDone
    /\ accepted
    /\ exDone
    /\ extracted # EmptyDict
    /\ BareBEVToken(lineIn)
    /\ PrimaryMatch(lineIn)

(***************************************************************************)
(* Properties of one run of the aggregator (SpecMerge).                    *)
(***************************************************************************)
RECURSIVE Pick(_, _, _)
\* the sub-sequence of rows at the indices I, from index i on
Pick(rows, I, i) ==
    IF i > Len(rows) THEN <<>>
    ELSE (IF i \in I THEN <<rows[i]>> ELSE <<>>) \o Pick(rows, I, i + 1)

\* the rows of the last call's dataset
Written == report[call.ret]

\* the per-file record sequences of the last call, files in the order of the
\* listing, records in line order
Merged == ConcatFrames(call.files, data, call.io)

\* the key that the selection rule of the specification gives a record
StatedKey(rows, r) ==
    IF \E i \in 1..Len(rows) : rows[i].VIN # <<>>
    THEN <<r.VIN, r.registration_date>>
    ELSE <<r.MARCA, r.MODELO, r.registration_date>>

\* the rows whose stated key no earlier row has
FirstOfStatedKey(rows) ==
    Pick(rows,
         {i \in 1..Len(rows) :
             \A j \in 1..(i - 1) : StatedKey(rows, rows[j]) # StatedKey(rows, rows[i])},
         1)

\* C4: the dedup key is chosen set-wide on VIN content: (VIN, date) when some
\* record has a non-empty VIN, (make, model, date) when every VIN is empty;
\* the dataset keeps the first record of each such key.
C4_KeyByVinContent ==
    (call.done /\ call.wrote) => Written = FirstOfStatedKey(Merged)

\* C5: in a written dataset no two records share (VIN, registration_date)
\* when VIN is non-empty, and no two records with an empty VIN share
\* (make, model, registration_date).
C5_NoDuplicateKeys ==
    \A f \in DOMAIN report :
        \A i, j \in 1..Len(report[f]) :
            LET a == report[f][i]
                b == report[f][j]
            IN  i < j =>
                  /\ ~(a.VIN # <<>> /\ a.VIN = b.VIN
                         /\ a.registration_date = b.registration_date)
                  /\ ~(a.VIN = <<>> /\ b.VIN = <<>> /\ a.MARCA = b.MARCA
                         /\ a.MODELO = b.MODELO
                         /\ a.registration_date = b.registration_date)

\* the rows that file n gave in the last call
RowsOf(n) == process_file(n, data[n], call.io[n]).rows

\* two files of the month both hold a record with the same VIN for the same
\* date, and the dataset holds exactly one record with that VIN
C5_Witness ==
    /\ call.done
    /\ call.wrote
    /\ \E a, b \in DOMAIN data :
          /\ a # b
          /\ \E i \in 1..Len(RowsOf(a)), j \in 1..Len(RowsOf(b)) :
                /\ RowsOf(a)[i].VIN = VIN_A
                /\ RowsOf(b)[j].VIN = VIN_A
                /\ RowsOf(a)[i].registration_date = RowsOf(b)[j].registration_date
    /\ Cardinality({i \in 1..Len(Written) : Written[i].VIN = VIN_A}) = 1

\* the rows whose dedup key no earlier row has
FirstOfDedupKey(rows) ==
    Pick(rows,
         {i \in 1..Len(rows) :
             \A j \in 1..(i - 1) : DedupKey(rows, rows[j]) # DedupKey(rows, rows[i])},
         1)

\* rows i < j of `rows` have the same dedup key and differ
DroppedForEarlier(rows) ==
    \E i, j \in 1..Len(rows) :
        /\ i < j
        /\ DedupKey(rows, rows[i]) = DedupKey(rows, rows[j])
        /\ rows[i] # rows[j]

\* C6: the written dataset is the sub-sequence of the concatenated per-file
\* record sequences that keeps the first record of each dedup key and drops
\* every later one, survivors in their original order.
C6_FirstOfEachKey ==
    (call.done /\ call.wrote) => Written = FirstOfDedupKey(Merged)

\* a run over two files in which a record is dropped in favour of an earlier
\* one with a different content, and two records survive
C6_Witness ==
    /\ call.done
    /\ call.wrote
    /\ Len(call.files) = 2
    /\ Len(Written) = 2
    /\ DroppedForEarlier(Merged)

\* C8: every record of a persisted dataset has a non-empty make and a
\* non-empty model.
C8_MakeAndModel ==
    \A f \in DOMAIN report :
        \A i \in 1..Len(report[f]) :
            report[f][i].MARCA # <<>> /\ report[f][i].MODELO # <<>>

\* a dataset was written from files of which one holds the line without a
\* make that is_ev accepts
C8_Witness ==
    /\ call.done
    /\ call.wrote
    /\ \E i \in 1..Len(call.files) :
          \E k \in 1..Len(data[call.files[i]]) : data[call.files[i]][k] = "LN_NOMAKE"
    /\ is_ev(Strip(LN_NOMAKE))
    /\ Strip(Slice(Strip(LN_NOMAKE), 9, 39)) = <<>>

(***************************************************************************)
(* Properties of repeated runs of the aggregator (Spec).                   *)
(***************************************************************************)
\* the last call found its output file and was not forced
ShortCircuited ==
    /\ call.done
    /\ ~call.force
    /\ OutputFile(call.year, call.month) \in DOMAIN call.before

\* C9: when the output dataset exists and force is false, process_month
\* returns the existing path, leaves the dataset unchanged and neither lists
\* nor reads a source file; a written dataset changes only in a forced call.
C9_ExistingOutputKept ==
    /\ [](ShortCircuited =>
            /\ call.ret = OutputFile(call.year, call.month)
            /\ report = call.before
            /\ ~call.globbed
            /\ call.opened = <<>>)
    /\ [][\A f \in DOMAIN report :
              /\ f \in DOMAIN report'
              /\ report'[f] # report[f]
                   => (call'.done /\ call'.force /\ call'.wrote /\ call'.ret = f)]_vars

\* a call that was not forced found a dataset written before the source
\* directory last changed
C9_Witness ==
    /\ ShortCircuited
    /\ call.dirty
    /\ \E n \in DOMAIN data : GlobMatch(n, call.year, call.month)

\* the last call listed no source file of the month, or no record of the
\* files it listed survived extraction
NoData ==
    /\ call.done
    /\ call.globbed
    /\ ConcatFrames(call.files, data, call.io) = <<>>

\* C11: when no source file is discovered for the month, or no record
\* survives extraction, the run completes successfully (exit status 0) with
\* an explicit no-data result: an empty dataset for the month.
C11_NoDataSucceeds ==
    NoData =>
        /\ call.exit = 0
        /\ OutputFile(call.year, call.month) \in DOMAIN report
        /\ report[OutputFile(call.year, call.month)] = <<>>

\* C10: two calls in a row for the same month with force false and unchanged
\* source files return the same result, and the second opens no source file.
C10_SecondRunReadsNothing ==
    (/\ call.done
     /\ prev.done
     /\ ~call.force
     /\ ~prev.force
     /\ call.year = prev.year
     /\ call.month = prev.month
     /\ ~call.dirty)
        => /\ call.ret = prev.ret
           /\ report = call.before
           /\ call.opened = <<>>

(***************************************************************************)
(* Properties of process_file (SpecFile).                                  *)
(***************************************************************************)
\* the name holds an 8-digit token that is a calendar date
HasFileDate(name) == DateGroup(name) # <<>> /\ strptime(DateGroup(name)).ok

\* C12: process_file on a file whose name has no 8-digit date token, or whose
\* token is no calendar date, fails with an error (an exception) and reads no
\* line of the file; both cases end the same way.
C12_BadNameFails ==
    (call.done /\ ~HasFileDate(call.file)) => (call.raised /\ call.read = 0)

(***************************************************************************)
(* Properties of a run over files with unusable names (SpecSkip).          *)
(***************************************************************************)
RECURSIVE DatedRows(_)
\* the records of the listed files whose names hold a date, in listing order
DatedRows(files) ==
    IF files = <<>> THEN <<>>
    ELSE (IF HasFileDate(Head(files))
          THEN FileRecords(data[Head(files)], strptime(DateGroup(Head(files))))
          ELSE <<>>)
             \o DatedRows(Tail(files))

\* the result of the last call is the one that rows give
ProducedFrom(rows) ==
    IF rows = <<>>
    THEN call.ret = NoPath /\ report = call.before
    ELSE call.wrote /\ Written = FirstOfDedupKey(rows)

\* C13: a discovered file whose name holds no parseable date is skipped;
\* every other discovered file is processed and the dataset is produced from
\* the records of those files.
C13_BadNameSkipped ==
    (call.done /\ call.globbed) =>
        /\ call.opened = SelectSeq(call.files, HasFileDate)
        /\ ProducedFrom(DatedRows(call.files))

\* a dataset was written in a run whose listing starts with a file whose
\* name holds eight digits that are no date
C13_Witness ==
    /\ call.done
    /\ call.wrote
    /\ Len(call.files) >= 2
    /\ call.files[1] = F_0230
    /\ Len(Written) >= 1

(***************************************************************************)
(* Properties of the exit status of a run (Spec).                          *)
(***************************************************************************)
\* C14: a run ends with a fatal error (a non-zero exit status) only when
\* the source directory is missing or unreadable, and a missing source
\* directory does end the run that way; an empty result or an error in a
\* line or a file does not.
C14_OnlyMissingDirIsFatal ==
    call.done => (call.exit # 0 <=> call.missing)

(***************************************************************************)
(* Properties of the extracted fields (SpecLine).                          *)
(***************************************************************************)
\* C15: for the line "20250228" + "0 TESLA".ljust(30) + "MODEL3".ljust(30)
\* padded to 200 characters and followed by '1000BEV 123456', is_ev returns
\* true and extract_vehicle_info returns make 'TESLA', model 'MODEL3' and
\* fuel signature '1000BEV 123456'.
C15_TeslaScenario ==
    (evDone /\ exDone /\ lineIn = ScenarioLine)
        => /\ accepted
           /\ extracted # EmptyDict
           /\ extracted.MARCA = TESLA
           /\ extracted.MODELO = MODEL3
           /\ extracted.COMBUSTIBLE = SIGNATURE

\* the make field sliced from s starts with one digit followed by whitespace
RoutingPrefix(s) ==
    /\ Len(s) >= 2
    /\ IsDigit(s[1])
    /\ IsSpace(s[2])

\* C16: when the make field sliced from the line starts with a single routing
\* digit followed by whitespace, the make of the returned record does not
\* start with that prefix.
C16_RoutingDigitStripped ==
    (exDone /\ extracted # EmptyDict /\ RoutingPrefix(Slice(lineIn, 9, 39)))
        => ~RoutingPrefix(extracted.MARCA)

(***************************************************************************)
(* Properties of the order of discovery (SpecMerge).                       *)
(***************************************************************************)
\* the dedup keys of the rows of a dataset, the key columns being chosen as
\* process_month chooses them
KeysOf(rows) == {DedupKey(rows, rows[i]) : i \in 1..Len(rows)}

\* the dataset that a call wrote to `out`, <<>> when it wrote none
DatasetOf(r, out) == IF r.wrote THEN r.rep[out] ELSE <<>>

\* two datasets have the same dedup keys, chosen from the same columns
SameKeys(written, other) ==
    /\ (other = <<>>) = (written = <<>>)
    /\ HasVINColumn(other) = HasVINColumn(written)
    /\ KeysOf(other) = KeysOf(written)

\* one fixed order of the files in S
SomeOrder(S) == CHOOSE p \in Perms(S) : TRUE

\* C17: starting from no existing output, for every order in which the
\* month's files are discovered process_month writes a dataset with the same
\* set of dedup keys, chosen from the same columns, also when VIN is present
\* in some files and blank in others.  Every order of the files is the
\* listing of some call, and each call is compared with the run on one fixed
\* order of the same files, so all orders are compared with each other.
C17_OrderIndependentKeys ==
    (call.done /\ call.globbed /\ call.before = EmptyDir) =>
        SameKeys(IF call.wrote THEN Written ELSE <<>>,
                 DatasetOf(process_month(call.year, call.month, call.force,
                                         SomeOrder({call.files[i] : i \in 1..Len(call.files)}),
                                         data, call.before, call.io),
                           OutputFile(call.year, call.month)))

\* a dataset written from two files, the records of the first listed with a
\* blank VIN and those of the second with a VIN
C17_Witness ==
    /\ call.done
    /\ call.wrote
    /\ Len(call.files) = 2
    /\ RowsOf(call.files[1]) # <<>>
    /\ RowsOf(call.files[2]) # <<>>
    /\ \A i \in 1..Len(RowsOf(call.files[1])) : RowsOf(call.files[1])[i].VIN = <<>>
    /\ \A i \in 1..Len(RowsOf(call.files[2])) : RowsOf(call.files[2])[i].VIN # <<>>
    /\ SomeOrder({call.files[1], call.files[2]}) # call.files

(***************************************************************************)
(* Properties of the two encoding passes of process_file (SpecFile).       *)
(***************************************************************************)
\* the records of one pass over the file: those of the fallback pass when
\* the primary pass raised, else those of the primary pass
SinglePassRows(name, content, io) ==
    FileRecords(PassLines(content, IF io.primary.raises THEN io.fallback ELSE io.primary),
                strptime(DateGroup(name)))

\* C18: the records returned by process_file come from a single encoding
\* pass: when the primary pass fails part-way the file is read again from
\* the start under the fallback encoding, and no record of the failed
\* primary pass is left or duplicated in the result.
C18_SinglePassOnly ==
    (call.done /\ call.opened)
        => call.rows = SinglePassRows(call.file, data[call.file], call.io)

\* C19: when reading fails under both the primary and the fallback encoding,
\* process_file returns no record for the file, wherever each pass failed.
C19_BothFailEmpty ==
    (call.done /\ call.opened /\ call.io.primary.raises /\ call.io.fallback.raises)
        => call.rows = <<>>

(***************************************************************************)
(* Properties of the files stored by the downloader (Spec).                *)
(***************************************************************************)
\* DGTDownloader.get_monthly_data: the name of the stored monthly file
MonthlyFile(year, month) == EXPORT_MAT \o Decimal(year) \o Pad2(month) \o TXT

\* DGTDownloader.get_daily_data: the name of the stored file of one day
DailyFile(year, month, day) ==
    EXPORT_MAT \o Decimal(year) \o Pad2(month) \o Pad2(day) \o TXT

\* the file n is one the downloader stores for (year, month)
StoredFor(n, year, month) ==
    \/ n = MonthlyFile(year, month)
    \/ \E day \in 1..31 : n = DailyFile(year, month, day)

\* the file holds a line that gives a record
HasRecordLine(content) ==
    \E k \in 1..Len(content) :
        (CHOOSE p \in ParsedLines : p[1] = content[k])[2] # EmptyDict

\* n occurs in the sequence of names
Listed(n, names) == \E i \in 1..Len(names) : names[i] = n

\* C20: every file the downloader stores for a (year, month), the monthly
\* file as well as a per-day file, is discovered by process_month for that
\* month and read by process_file, and a dataset is written when the file
\* holds a line that gives a record (stated of the last run, while the
\* directory is as that run found it).
C20_MonthlyLikeDaily ==
    (call.done /\ call.globbed /\ ~dirty) =>
        \A n \in DOMAIN data :
            StoredFor(n, call.year, call.month) =>
                /\ Listed(n, call.files)
                /\ Listed(n, call.opened)
                /\ HasRecordLine(data[n]) => call.wrote

(***************************************************************************)
(* Properties of the dates of the records (SpecSkip).                      *)
(***************************************************************************)
\* the record r carries the date in the name of file n, and that date lies
\* in (year, month)
DatedBy(r, n, year, month) ==
    /\ HasFileDate(n)
    /\ r.registration_date = <<strptime(DateGroup(n)).year, strptime(DateGroup(n)).month,
                                strptime(DateGroup(n)).day>>
    /\ r.year = strptime(DateGroup(n)).year
    /\ r.month = strptime(DateGroup(n)).month
    /\ r.day = strptime(DateGroup(n)).day
    /\ r.year = year
    /\ r.month = month

\* C21: every record of the dataset written by process_month(year, month)
\* carries the date parsed from the name of a file of the listing, with
\* year, month and day equal to its components, and that date lies in the
\* requested year and month, whatever names the listing holds.
C21_DateInRequestedMonth ==
    (call.done /\ call.wrote) =>
        \A i \in 1..Len(Written) :
            \E k \in 1..Len(call.files) :
                DatedBy(Written[i], call.files[k], call.year, call.month)

(***************************************************************************)
(* Properties of the surviving duplicate (SpecMerge).                      *)
(***************************************************************************)
\* the records of a dataset, order left aside
RowSet(rows) == {rows[i] : i \in 1..Len(rows)}

\* C22: for fixed contents of the source directory the record that survives
\* for each duplicated dedup key is the same in every execution of
\* process_month: whatever order glob.glob returns the files in, the
\* dataset holds the same records.  Each listing order is compared with the
\* run on one fixed order of the same files.
C22_SameSurvivor ==
    (call.done /\ call.globbed /\ call.before = EmptyDir) =>
        RowSet(IF call.wrote THEN Written ELSE <<>>)
            = RowSet(DatasetOf(process_month(call.year, call.month, call.force,
                                             SomeOrder({call.files[i] : i \in 1..Len(call.files)}),
                                             data, call.before, call.io),
                               OutputFile(call.year, call.month)))

\* C23: when a later file or line gives a record that collides under the
\* dedup key with an earlier record, the earlier record is the one dropped
\* from the dataset: the dataset keeps the last record of each key.
C23_EarlierDropped ==
    (call.done /\ call.wrote) => Written = drop_duplicates_keep_last(Merged)

(***************************************************************************)
(* Properties of the fuel signature (SpecLine).                            *)
(***************************************************************************)
\* t is the stripped text of an occurrence of r'\d+BEV\s+\d+' in s
Family1Text(s, t) ==
    \E i \in 1..Len(s) : Match1(s, i) > 0 /\ t = Strip(SubSeq(s, i, Match1(s, i)))

\* t is the stripped text of an occurrence of r'BEV\s+\d{5,}' in s
Family2Text(s, t) ==
    \E i \in 1..Len(s) : Match2(s, i) > 0 /\ t = Strip(SubSeq(s, i, Match2(s, i)))

\* t is the stripped text of an occurrence of r'\d{3,}BEV' in s
Family3Text(s, t) ==
    \E i \in 1..Len(s) : Match3(s, i) > 0 /\ t = Strip(SubSeq(s, i, Match3(s, i)))

\* the family of the highest priority that s holds: 1..3 the patterns, 4
\* 'ELECTRIC' without 'HYBRID', 5 r'E-[A-Z]+' without 'HYBRID', 0 none
TopFamily(s) ==
    IF \E i \in 1..Len(s) : Match1(s, i) > 0 THEN 1
    ELSE IF \E i \in 1..Len(s) : Match2(s, i) > 0 THEN 2
    ELSE IF \E i \in 1..Len(s) : Match3(s, i) > 0 THEN 3
    ELSE IF Contains(Upper(s), ELECTRIC) /\ ~Contains(Upper(s), HYBRID) THEN 4
    ELSE IF EDash(s) /\ ~Contains(Upper(s), HYBRID) THEN 5
    ELSE 0

\* t is a signature of family f in s
FamilyText(f, s, t) ==
    CASE f = 1 -> Family1Text(s, t)
      [] f = 2 -> Family2Text(s, t)
      [] f = 3 -> Family3Text(s, t)
      [] f = 4 -> t = ELECTRIC
      [] f = 5 -> t = EVEHICLE
      [] f = 0 -> FALSE

\* C24: the fuel signature of a returned record is that of the family of
\* the highest priority present anywhere in the line (digits+BEV+blank+
\* digits, BEV+blank+5 digits, 3 digits+BEV, 'ELECTRIC', 'E-VEHICLE'), also
\* when a family of a lower priority occurs earlier in the line.
C24_FamilyPriority ==
    (exDone /\ extracted # EmptyDict)
        => FamilyText(TopFamily(lineIn), lineIn, extracted.COMBUSTIBLE)

\* the extractor returned for the two lines in which the pattern of the
\* lower priority occurs first, with the signature of the higher one
C24_Witness ==
    /\ exDone
    /\ extracted # EmptyDict
    /\ \/ /\ lineIn = LINE_3_THEN_2
          /\ Search3(lineIn) < Search2(lineIn)
          /\ extracted.COMBUSTIBLE = BEV \o <<" ">> \o NUM6
       \/ /\ lineIn = LINE_2_THEN_1
          /\ Search2(lineIn) < Search1(lineIn)
          /\ extracted.COMBUSTIBLE = D2BEV \o <<" ">> \o NUM4

\* C27: for a line accepted by is_ev, extract_vehicle_info always resolves
\* a fuel signature: it returns no record only when the make slice or the
\* model slice is blank.
C27_AcceptedHasSignature ==
    (evDone /\ accepted /\ exDone) =>
        /\ FuelSignature(lineIn) \notin {<<>>, BEV}
        /\ extracted = EmptyDict
              <=> (Strip(Slice(lineIn, 9, 39)) = <<>> \/ Strip(Slice(lineIn, 39, 69)) = <<>>)

\* a line accepted through the secondary check alone, for which the
\* extractor returned a record
C27_Witness ==
    /\ evDone
    /\ accepted
    /\ exDone
    /\ ~PrimaryMatch(lineIn)
    /\ extracted # EmptyDict
    /\ extracted.COMBUSTIBLE \in {ELECTRIC, EVEHICLE}

\* 'HYBRID' in line.upper()
HasHybrid(s) == Contains(Upper(s), HYBRID)

\* C28: a line that contains HYBRID in any letter case is accepted by is_ev
\* only when it matches a primary pattern that the trailing-BEV rule does
\* not exclude, never through the secondary signal, and its extracted fuel
\* signature is never 'ELECTRIC' or 'E-VEHICLE'.
C28_HybridNeverSecondary ==
    /\ (evDone /\ accepted /\ HasHybrid(lineIn))
          => (PrimaryMatch(lineIn) /\ ~TrailingBEV(lineIn))
    /\ (exDone /\ extracted # EmptyDict /\ extracted.COMBUSTIBLE \in {ELECTRIC, EVEHICLE})
          => ~HasHybrid(lineIn)

\* a line with HYBRID in mixed case and an E-<letters> token that is
\* accepted, and for which the extractor returned a record
C28_Witness ==
    /\ evDone
    /\ accepted
    /\ exDone
    /\ extracted # EmptyDict
    /\ HasHybrid(lineIn)
    /\ ~Contains(lineIn, HYBRID)
    /\ EDash(lineIn)

(***************************************************************************)
(* Properties of the order of the calls in process_file (SpecFile).        *)
(***************************************************************************)
\* the fuel marker of the line named id is the bare token 'BEV': no digit
\* next to it, no ELECTRIC and no E-<letters> token in the line
BareBEVLine(id) ==
    /\ OnlyTrailingBEV(Strip(LineText(id)))
    /\ BareBEVToken(Strip(LineText(id)))
    /\ ~Contains(Upper(LineText(id)), ELECTRIC)
    /\ ~EDash(LineText(id))

\* C25: in process_file the extractor is called on a line only right after
\* is_ev returned true for the same stripped, non-blank line; for a line
\* whose fuel marker is the bare 'BEV' is_ev returns false and the
\* extractor is never called.
C25_ExtractAfterAccept ==
    call.done =>
        \A j \in 1..Len(call.calls) :
            /\ call.calls[j].op = "extract_vehicle_info" =>
                  /\ j > 1
                  /\ call.calls[j - 1].op = "is_ev"
                  /\ call.calls[j - 1].line = call.calls[j].line
                  /\ call.calls[j - 1].ret
                  /\ call.calls[j].line \notin BlankLines
            /\ BareBEVLine(call.calls[j].line) =>
                  /\ call.calls[j].op = "is_ev"
                  /\ ~call.calls[j].ret

\* a call that read, in both passes, a line with the bare marker and a line
\* that the extractor was called on
C25_Witness ==
    /\ call.done
    /\ call.io.primary.raises
    /\ \E j, k \in 1..Len(call.calls) :
          /\ call.calls[j].op = "extract_vehicle_info"
          /\ BareBEVLine(call.calls[k].line)
          /\ j > Len(PassCalls(PassLines(data[call.file], call.io.primary), FALSE))
          /\ k <= Len(PassCalls(PassLines(data[call.file], call.io.primary), FALSE))

(***************************************************************************)
(* Properties of a forced run that finds no data (Spec).                   *)
(***************************************************************************)
\* the last call was forced and returned "" after listing the files
ForcedNoData ==
    /\ call.done
    /\ call.force
    /\ call.globbed
    /\ call.ret = NoPath

C26_WrittenOnceAtEnd ==
    /\ [](call # NoCall => call.writes <= 1)
    /\ [][report' # report =>
             /\ call.phase = "save"
             /\ call.todo = <<>>
             /\ call.writes = 0
             /\ call'.writes = 1
             /\ call'.done
             /\ report' = to_csv(OutputFile(call.year, call.month),
                                 drop_duplicates(ConcatFrames(call.files, data,
                                                              NoFaults(call.files))),
                                 report)]_vars

\* a call over two files has written its dataset
C26_Witness ==
    /\ call # NoCall
    /\ call.done
    /\ call.writes = 1
    /\ Len(call.files) = 2
    /\ call.ret \in DOMAIN report
    /\ Len(report[call.ret]) >= 1

====
